---- MODULE Spec2Model ----
(***************************************************************************)
(* Integration & enterprise-automation reliability subsystem of the        *)
(* TZ Generator backend: the file-backed store (queue, history,            *)
(* enterprise_status), the idempotency cache, the hash-chained immutable   *)
(* audit ledger, the transport dispatcher, the queue flush engine and the  *)
(* HTTP handlers in front of them.  Two deployable programs share the      *)
(* design: backend/main.py (variant "main") and backend/app.py (variant    *)
(* "app"); the variant is fixed at start-up.                               *)
(***************************************************************************)
EXTENDS Integers, Sequences, FiniteSets, TLC

(* ---- bounds of the model ---------------------------------------------- *)
\* stand-in for the queue capacity (3000 in main.py, 2000 in app.py)
QueueCap == 2
\* stand-in for the history capacity (10000 in main.py, 5000 in app.py)
HistoryCap == 2
\* number of record ids uuid4 hands out in one behaviour
MaxIds == 3
\* flushes stop being issued for a record once it has been tried this often
AttemptCap == 2
\* stand-in for the enterprise_status capacity (2000 in main.py)
EnterpriseStatusCap == 1
\* entries the immutable audit chain grows to in one behaviour
MaxChain == 3
\* rows the audit log grows to in one behaviour
MaxAudit == 4
\* records enqueued in one behaviour of concurrent requests
MaxThreadIds == 2

(* ---- configuration the tests and the spec name ------------------------ *)
\* the retry budget the tests configure (monkeypatched INTEGRATION_MAX_ATTEMPTS)
INTEGRATION_MAX_ATTEMPTS == 2

VARIABLES
    variant,            \* "main" (backend/main.py) or "app" (backend/app.py)
    target_url,         \* INTEGRATION_TARGET_WEBHOOK_URL: "" when not configured
    api_token,          \* INTEGRATION_API_TOKEN: "" when not configured
    allow_anon,         \* INTEGRATION_ALLOW_ANON (main.py only)
    store,              \* the document in INTEGRATION_STORE_FILE
    idempotency_keys,   \* table integration_idempotency_keys: idem_key -> response
    immutable_audit_chain, \* table immutable_audit_chain, ordered by id
    audit_on,           \* whether inserts into integration_audit_log succeed
    idempotency_on,     \* whether inserts into integration_idempotency_keys succeed
    chain_on,           \* whether inserts into immutable_audit_chain succeed
    audit_log,          \* table integration_audit_log, ordered by id
    next_uuid,          \* the next fresh id uuid4 returns
    response,           \* the response the last request got
    threads,            \* the requests in flight, one per worker thread
    request             \* the autopilot request a client is about to send

vars == <<variant, target_url, api_token, allow_anon, store, idempotency_keys,
          immutable_audit_chain, audit_on, idempotency_on, chain_on, audit_log,
          next_uuid,
          response, threads,
          request>>

config == <<variant, target_url, api_token, allow_anon, audit_on, idempotency_on,
           chain_on>>

(* ---- small helpers ----------------------------------------------------- *)
\* Python's xs[-n:] for n > 0
LastN(xs, n) == IF Len(xs) > n THEN SubSeq(xs, Len(xs) - n + 1, Len(xs)) ELSE xs

\* Python's dict.get(key, default)
DictGet(d, key, default) == IF key \in DOMAIN d THEN d[key] ELSE default

\* Python's d[key] = value on a dict
DictSet(d, key, value) == (key :> value) @@ d

\* the ids of the records of a collection
Ids(xs) == {xs[i].id : i \in 1..Len(xs)}

(* ---- persistent store -------------------------------------------------- *)
_default_integration_store ==
    [queue |-> <<>>, history |-> <<>>, enterprise_status |-> <<>>]

_default_store == [queue |-> <<>>, history |-> <<>>]

\* the store file always holds a JSON object written by save_*; load supplies
\* the collections the document lacks
load_integration_store(doc) ==
    [k \in DOMAIN doc \cup {"queue", "history", "enterprise_status"} |->
        DictGet(doc, k, <<>>)]

load_store(doc) ==
    [k \in DOMAIN doc \cup {"queue", "history"} |-> DictGet(doc, k, <<>>)]

Load(doc) == IF variant = "main" THEN load_integration_store(doc) ELSE load_store(doc)

\* the collections as a reader of the store sees them
queue == DictGet(store, "queue", <<>>)
history == DictGet(store, "history", <<>>)
dead_letter == DictGet(store, "dead_letter", <<>>)
enterprise_status == DictGet(store, "enterprise_status", <<>>)

(* ---- integration records ----------------------------------------------- *)
\* URLs for which urllib's Request(url) does not raise ValueError
WellFormedUrls == {"http://sink", "http://hook"}

\* what the network answers to one outbound call: an HTTP status (0 would be a
\* connection failure or timeout, which every caller treats as it treats 500)
NetOutcomes == {200, 500}

\* the record append_integration_record / append_record builds; kind, source,
\* payload and the timestamps are opaque to the queue and left out
NewRecord(id, kind, transport) ==
    IF variant = "main"
    THEN [id |-> id, status |-> "queued", attempts |-> 0, transport |-> transport]
    ELSE [id |-> id, status |-> "queued", attempts |-> 0]

\* a faulty trim that keeps the oldest entries
TrimKeepsOldest(xs, cap) == IF Len(xs) > cap THEN SubSeq(xs, 1, cap) ELSE xs

\* if len(xs) > cap: xs = xs[-cap:]
Trim(xs, cap) == IF Len(xs) > cap THEN LastN(xs, cap) ELSE xs

\* load, append the record, trim the queue to its capacity, save
append_integration_record(doc, record) ==
    LET s == Load(doc)
    IN  [s EXCEPT !.queue = Trim(Append(s.queue, record), QueueCap)]

(* ---- audit log --------------------------------------------------------- *)
\* one row of integration_audit_log still to be numbered (at, note and payload
\* left out)
AuditRow(action, status, record_id) ==
    [action |-> action, status |-> status, record_id |-> record_id]

\* an insert that gives every row the same id
LogWithoutAutoincrement(log, row) ==
    IF audit_on /\ Len(log) < MaxAudit
    THEN Append(log, DictSet(row, "id", 1))
    ELSE log

\* INSERT INTO integration_audit_log: AUTOINCREMENT numbers the row; a failed
\* insert (the table rejects it, or its volume is full at MaxAudit rows) is
\* swallowed
log_integration_audit(log, row) ==
    IF audit_on /\ Len(log) < MaxAudit
    THEN Append(log, DictSet(row, "id", Len(log) + 1))
    ELSE log

\* SELECT ... ORDER BY id DESC over a set of rows
RECURSIVE OrderByIdDesc(_)
OrderByIdDesc(rows) ==
    IF rows = {}
    THEN <<>>
    ELSE LET top == CHOOSE r \in rows : \A q \in rows : q.id <= r.id
         IN  <<top>> \o OrderByIdDesc(rows \ {top})

\* ... LIMIT ?
SelectAudit(log, limit) ==
    LET rows == OrderByIdDesc({log[i] : i \in 1..Len(log)})
    IN  IF Len(rows) > limit THEN SubSeq(rows, 1, limit) ELSE rows

\* several log_integration_audit calls in a row
RECURSIVE LogAll(_, _)
LogAll(log, rows) ==
    IF rows = <<>> THEN log ELSE LogAll(log_integration_audit(log, Head(rows)), Tail(rows))

(* ---- transport dispatcher ---------------------------------------------- *)
\* a POST that takes every status below 400 for a success
HttpPostOkBelow400(url, net) ==
    IF url \notin WellFormedUrls
    THEN [raised |-> TRUE, ok |-> FALSE, status |-> 0]
    ELSE [raised |-> FALSE, ok |-> (200 <= net /\ net < 400), status |-> net]

\* main.py: Request(url) is built outside the try block, so a malformed URL
\* raises out of the call; otherwise (ok, status)
_http_post_json(url, net) ==
    IF url \notin WellFormedUrls
    THEN [raised |-> TRUE, ok |-> FALSE, status |-> 0]
    ELSE [raised |-> FALSE, ok |-> (200 <= net /\ net < 300), status |-> net]

HttpNote(status) ==
    CASE status = 200 -> "http=200"
      [] status = 204 -> "http=204"
      [] status = 299 -> "http=299"
      [] status = 300 -> "http=300"
      [] status = 404 -> "http=404"
      [] status = 500 -> "http=500"
      [] OTHER -> "http=0"

_dispatch_record(record, net) ==
    LET transport == DictGet(record, "transport", <<>>)
        mode == DictGet(transport, "mode", "target_webhook")
    IN  IF mode = "target_webhook"
        THEN IF target_url = ""
             THEN [raised |-> FALSE, ok |-> FALSE, note |-> "target_webhook_not_configured"]
             ELSE LET r == _http_post_json(target_url, net)
                  IN  [raised |-> r.raised, ok |-> r.ok, note |-> HttpNote(r.status)]
        ELSE IF mode = "endpoint"
        THEN LET url == DictGet(transport, "url", "")
             IN  IF url = ""
                 THEN [raised |-> FALSE, ok |-> FALSE, note |-> "endpoint_url_missing"]
                 ELSE LET r == _http_post_json(url, net)
                      IN  [raised |-> r.raised, ok |-> r.ok, note |-> HttpNote(r.status)]
        ELSE [raised |-> FALSE, ok |-> FALSE, note |-> "unsupported_transport_mode"]

\* app.py's diagnostic: f"http {code}", or the URLError for no answer at all
AppNote(net) ==
    CASE net = 0 -> "url_error"
      [] net = 200 -> "http 200"
      [] net = 204 -> "http 204"
      [] net = 299 -> "http 299"
      [] net = 300 -> "http 300"
      [] net = 404 -> "http 404"
      [] OTHER -> "http 500"

\* app.py: every exception is caught inside push_to_target
push_to_target(net) ==
    IF target_url = ""
    THEN [raised |-> FALSE, ok |-> FALSE, note |-> "target webhook is not configured"]
    ELSE IF target_url \notin WellFormedUrls
    THEN [raised |-> FALSE, ok |-> FALSE, note |-> "error"]
    ELSE IF 200 <= net /\ net < 300
    THEN [raised |-> FALSE, ok |-> TRUE, note |-> AppNote(net)]
    ELSE [raised |-> FALSE, ok |-> FALSE, note |-> AppNote(net)]

Dispatch(record, net) ==
    IF variant = "main" THEN _dispatch_record(record, net) ELSE push_to_target(net)

(* ---- queue flush engine ------------------------------------------------ *)
\* the per-record updates of the flush loop
MarkAttempt(item) == [item EXCEPT !.attempts = @ + 1]

MarkSent(item, note) == DictSet([item EXCEPT !.status = "sent"], "last_result", note)

MarkRetry(item, note) == DictSet([item EXCEPT !.status = "queued"], "last_result", note)

\* a faulty placement that also keeps a delivered record in the queue
AfterDispatchKeepsSent(acc, item, d) ==
    IF d.ok
    THEN [acc EXCEPT !.processed = @ + 1, !.success = @ + 1,
                     !.history = Append(@, MarkSent(item, d.note)),
                     !.remained = Append(@, MarkSent(item, d.note))]
    ELSE [acc EXCEPT !.processed = @ + 1, !.failed = @ + 1,
                     !.remained = Append(@, MarkRetry(item, d.note))]

\* a faulty placement that puts a failed record in front of those kept so far
AfterDispatchRetryFirst(acc, item, d) ==
    IF d.ok
    THEN [acc EXCEPT !.processed = @ + 1, !.success = @ + 1,
                     !.history = Append(@, MarkSent(item, d.note)),
                     !.audit = Append(@, AuditRow("queue.flush_item", "sent", item.id))]
    ELSE [acc EXCEPT !.processed = @ + 1, !.failed = @ + 1,
                     !.remained = <<MarkRetry(item, d.note)>> \o @,
                     !.audit = Append(@, AuditRow("queue.flush_item", "queued", item.id))]

\* where the loop puts a record after its dispatch: acc is the loop's state
AfterDispatch(acc, item, d) ==
    IF d.ok
    THEN [acc EXCEPT !.processed = @ + 1, !.success = @ + 1,
                     !.history = Append(@, MarkSent(item, d.note)),
                     !.audit = Append(@, AuditRow("queue.flush_item", "sent", item.id))]
    ELSE [acc EXCEPT !.processed = @ + 1, !.failed = @ + 1,
                     !.remained = Append(@, MarkRetry(item, d.note)),
                     !.audit = Append(@, AuditRow("queue.flush_item", "queued", item.id))]

\* a faulty loop that counts an attempt for the records beyond the limit too
RECURSIVE FlushLoopCountsAll(_, _, _, _, _)
FlushLoopCountsAll(q, idx, limit, nets, acc) ==
    IF idx > Len(q) \/ acc.raised
    THEN acc
    ELSE IF idx > limit
    THEN FlushLoopCountsAll(q, idx + 1, limit, nets,
                            [acc EXCEPT !.remained = Append(@, MarkAttempt(q[idx]))])
    ELSE LET item == MarkAttempt(q[idx])
             d == Dispatch(item, nets[idx])
         IN  IF d.raised
             THEN [acc EXCEPT !.raised = TRUE]
             ELSE FlushLoopCountsAll(q, idx + 1, limit, nets, AfterDispatch(acc, item, d))

\* the for loop of flush_integration_queue / flush_queue from index idx on;
\* nets[idx] is the network's answer to the dispatch of queue[idx]
RECURSIVE FlushLoop(_, _, _, _, _)
FlushLoop(q, idx, limit, nets, acc) ==
    IF idx > Len(q) \/ acc.raised
    THEN acc
    ELSE IF idx > limit
    THEN FlushLoop(q, idx + 1, limit, nets, [acc EXCEPT !.remained = Append(@, q[idx])])
    ELSE LET item == MarkAttempt(q[idx])
             d == Dispatch(item, nets[idx])
         IN  IF d.raised
             THEN [acc EXCEPT !.raised = TRUE]
             ELSE FlushLoop(q, idx + 1, limit, nets, AfterDispatch(acc, item, d))

\* a faulty flush that saves after every record, so that what was done before
\* a dispatch raised is in the store
FlushSavesEachRecord(doc, limit, nets) ==
    LET s == Load(doc)
        acc == FlushLoop(s.queue, 1, limit, nets,
                         [processed |-> 0, success |-> 0, failed |-> 0,
                          remained |-> <<>>, history |-> s.history, raised |-> FALSE,
                          audit |-> <<>>])
        rest == IF acc.raised
                THEN SubSeq(s.queue, acc.processed + 1, Len(s.queue))
                ELSE <<>>
        remained == Trim(acc.remained \o rest, QueueCap)
    IN  [raised |-> acc.raised,
         audit |-> acc.audit,
         store |-> [s EXCEPT !.queue = remained,
                             !.history = Trim(acc.history, HistoryCap)],
         result |-> [processed |-> acc.processed, success |-> acc.success,
                     failed |-> acc.failed, queue_remaining |-> Len(remained),
                     target_configured |-> (target_url # "")]]

\* the whole function: the store to save, the audit rows written on the way and
\* the result returned; when a dispatch raises nothing is saved
flush_integration_queue(doc, limit, nets) ==
    LET s == Load(doc)
        acc == FlushLoop(s.queue, 1, limit, nets,
                         [processed |-> 0, success |-> 0, failed |-> 0,
                          remained |-> <<>>, history |-> s.history, raised |-> FALSE,
                          audit |-> <<>>])
        remained == Trim(acc.remained, QueueCap)
    IN  [raised |-> acc.raised,
         audit |-> acc.audit,
         store |-> IF acc.raised THEN doc
                   ELSE [s EXCEPT !.queue = remained,
                                  !.history = Trim(acc.history, HistoryCap)],
         result |-> [processed |-> acc.processed, success |-> acc.success,
                     failed |-> acc.failed, queue_remaining |-> Len(remained),
                     target_configured |-> (target_url # "")]]

(* ---- idempotency cache ------------------------------------------------- *)
\* what the lookup returns for a key that has no row (Python's None)
NoResponse == [ok |-> FALSE]

\* SELECT response_json ... WHERE idem_key = ?
_get_idempotency_response(table, idem_key) == DictGet(table, idem_key, NoResponse)

\* a faulty store that writes no row
StoreNoRow(table, idem_key, resp) == table

\* INSERT OR REPLACE INTO integration_idempotency_keys; a failed insert is
\* swallowed
_store_idempotency_response(table, idem_key, resp) ==
    IF idempotency_on THEN DictSet(table, idem_key, resp) ELSE table

\* Python's truth test of "if prev:" on what the lookup returned
Truthy(prev) == prev # NoResponse

(* ---- immutable audit chain --------------------------------------------- *)
\* the sentinel prev_hash of the first entry
genesis == <<"genesis">>

\* a digest that leaves the payload text out
DigestWithoutPayload(at, action, payload_json, prev_hash) == <<at, action, prev_hash>>

\* sha256 over "at|action|payload_json|prev_hash", as an injective function: the
\* digest stands for the text it was computed from
Sha256(at, action, payload_json, prev_hash) == <<at, action, payload_json, prev_hash>>

\* json.dumps(payload, sort_keys=True): the text is fixed by the payload's
\* key/value pairs, whatever order the keys were inserted in
Canonical(payload) == {<<k, payload[k]>> : k \in DOMAIN payload}

\* the timestamps utc_now may return
Times == {1, 2}

\* a faulty append that links every entry to the sentinel
AppendUnlinked(chain, at, action, payload) ==
    Append(chain, [id |-> Len(chain) + 1, at |-> at, action |-> action,
                   payload_json |-> Canonical(payload), prev_hash |-> genesis,
                   hash |-> Sha256(at, action, Canonical(payload), genesis)])

\* SELECT hash ... ORDER BY id DESC LIMIT 1, then INSERT
_append_immutable_audit(chain, at, action, payload) ==
    LET prev_hash == IF chain = <<>> THEN genesis ELSE chain[Len(chain)].hash
        payload_json == Canonical(payload)
        digest == Sha256(at, action, payload_json, prev_hash)
    IN  Append(chain, [id |-> Len(chain) + 1, at |-> at, action |-> action,
                       payload_json |-> payload_json, prev_hash |-> prev_hash,
                       hash |-> digest])

\* utc_now does not run backwards between two appends
ClockAllows(chain, at) == IF chain = <<>> THEN TRUE ELSE chain[Len(chain)].at <= at

(* ---- enterprise autopilot orchestrator --------------------------------- *)
StageNames == <<"etp.status.sync", "ecm.approval.submit", "erp.sync", "crypto.sign">>

\* main.py: as _http_post_json, Request(url) is built outside the try block
_http_get_json(url, net) ==
    IF url \notin WellFormedUrls
    THEN [raised |-> TRUE, ok |-> FALSE, status |-> 0]
    ELSE [raised |-> FALSE, ok |-> (200 <= net /\ net < 300), status |-> net]

\* add_stage: name, ok, detail (the data of a stage is left out)
add_stage(stages, name, ok, detail) ==
    Append(stages, [name |-> name, ok |-> ok, detail |-> detail])

\* a failed stage: the stage result, the retry record saved to the store and
\* logged, its id remembered; the record's URL is the stage URL, well formed
\* when the endpoint is
StageFailed(acc, k, endpoint, status) ==
    LET rec == NewRecord(acc.next_uuid, StageNames[k], [mode |-> "endpoint", url |-> endpoint])
    IN  [acc EXCEPT !.stages = add_stage(@, StageNames[k], FALSE, HttpNote(status)),
                    !.store = append_integration_record(@, rec),
                    !.audit = Append(@, AuditRow("queue.append", "ok", rec.id)),
                    !.queued_ids = Append(@, rec.id),
                    !.next_uuid = @ + 1]

\* a stage block in which simulation overrides a configured endpoint
RunStageSimulationFirst(acc, k, settings, net) ==
    LET enabled == IF k = 1 THEN settings.etp_enabled ELSE TRUE
        endpoint == settings.endpoints[k]
        r == IF k = 1 THEN _http_get_json(endpoint, net) ELSE _http_post_json(endpoint, net)
    IN  IF enabled /\ settings.simulation_mode
        THEN [acc EXCEPT !.stages = add_stage(@, StageNames[k], TRUE, "simulated")]
        ELSE IF enabled /\ endpoint # ""
        THEN IF r.raised THEN [acc EXCEPT !.raised = TRUE]
             ELSE IF r.ok
             THEN [acc EXCEPT !.stages = add_stage(@, StageNames[k], TRUE, HttpNote(r.status))]
             ELSE StageFailed(acc, k, endpoint, r.status)
        ELSE [acc EXCEPT !.stages = add_stage(@, StageNames[k], FALSE, "skipped_not_configured")]

\* a stage block without the simulation branch: a stage with no endpoint is
\* always skipped
RunStageNeverSimulates(acc, k, settings, net) ==
    LET enabled == IF k = 1 THEN settings.etp_enabled ELSE TRUE
        endpoint == settings.endpoints[k]
        r == IF k = 1 THEN _http_get_json(endpoint, net) ELSE _http_post_json(endpoint, net)
    IN  IF enabled /\ endpoint # ""
        THEN IF r.raised THEN [acc EXCEPT !.raised = TRUE]
             ELSE IF r.ok
             THEN [acc EXCEPT !.stages = add_stage(@, StageNames[k], TRUE, HttpNote(r.status))]
             ELSE StageFailed(acc, k, endpoint, r.status)
        ELSE [acc EXCEPT !.stages = add_stage(@, StageNames[k], FALSE, "skipped_not_configured")]

\* one of the four stage blocks of run_enterprise_autopilot; stage 1 runs only
\* when etpBidirectionalStatus is on, the others always
RunStage(acc, k, settings, net) ==
    LET enabled == IF k = 1 THEN settings.etp_enabled ELSE TRUE
        endpoint == settings.endpoints[k]
        r == IF k = 1 THEN _http_get_json(endpoint, net) ELSE _http_post_json(endpoint, net)
    IN  IF enabled /\ endpoint # ""
        THEN IF r.raised THEN [acc EXCEPT !.raised = TRUE]
             ELSE IF r.ok
             THEN [acc EXCEPT !.stages = add_stage(@, StageNames[k], TRUE, HttpNote(r.status))]
             ELSE StageFailed(acc, k, endpoint, r.status)
        ELSE IF enabled /\ settings.simulation_mode
        THEN [acc EXCEPT !.stages = add_stage(@, StageNames[k], TRUE, "simulated")]
        ELSE [acc EXCEPT !.stages = add_stage(@, StageNames[k], FALSE, "skipped_not_configured")]

RECURSIVE RunStages(_, _, _, _)
RunStages(acc, k, settings, nets) ==
    IF k > Len(StageNames) \/ acc.raised
    THEN acc
    ELSE RunStages(RunStage(acc, k, settings, nets[k]), k + 1, settings, nets)

\* detail.startswith("skipped_")
IsSkip(stage) == stage.detail = "skipped_not_configured"

StageOk(stage) == stage.ok

StageFailure(stage) == ~stage.ok /\ ~IsSkip(stage)

\* a result whose ok also counts the skipped stages against the run
AutopilotResultStrict(stages, queued_ids) ==
    [ok |-> Len(SelectSeq(stages, StageOk)) = Len(stages),
     stages_total |-> Len(stages),
     stages_success |-> Len(SelectSeq(stages, StageOk)),
     stages_failed |-> Len(SelectSeq(stages, StageFailure)),
     stages_skipped |-> Len(SelectSeq(stages, IsSkip)),
     queued_retry_records |-> queued_ids,
     stages |-> stages]

\* the result dictionary built from the stage list
AutopilotResult(stages, queued_ids) ==
    [ok |-> Len(SelectSeq(stages, StageFailure)) = 0,
     stages_total |-> Len(stages),
     stages_success |-> Len(SelectSeq(stages, StageOk)),
     stages_failed |-> Len(SelectSeq(stages, StageFailure)),
     stages_skipped |-> Len(SelectSeq(stages, IsSkip)),
     queued_retry_records |-> queued_ids,
     stages |-> stages]

\* the snapshot appended to enterprise_status
StatusSnapshot(procedure_id, result) ==
    [procedure_id |-> procedure_id,
     summary |-> [success |-> result.stages_success, failed |-> result.stages_failed,
                  skipped |-> result.stages_skipped],
     stages |-> result.stages]

\* the whole function: when a stage raises, the retry records of the stages
\* before it are already saved and nothing else happens
run_enterprise_autopilot(doc, uuid, settings, procedure_id, nets) ==
    LET acc == RunStages([store |-> doc, stages |-> <<>>, queued_ids |-> <<>>,
                          next_uuid |-> uuid, audit |-> <<>>, raised |-> FALSE],
                         1, settings, nets)
        result == AutopilotResult(acc.stages, acc.queued_ids)
        s == Load(acc.store)
    IN  [raised |-> acc.raised,
         audit |-> acc.audit,
         next_uuid |-> acc.next_uuid,
         result |-> result,
         store |-> IF acc.raised THEN acc.store
                   ELSE [s EXCEPT !.enterprise_status =
                            Trim(Append(@, StatusSnapshot(procedure_id, result)),
                                 EnterpriseStatusCap)]]

(* ---- access control ---------------------------------------------------- *)
\* what a request carries: no credentials, the configured API token, another
\* token, or the JWT of a signed-in user
Creds == {"none", "token", "wrong", "user"}

\* the token _extract_api_token / _extract_request_token reads from the headers
TokenOf(cred) ==
    CASE cred = "token" -> "secret-token"
      [] cred = "wrong" -> "wrong-token"
      [] cred = "user" -> "jwt"
      [] OTHER -> ""

require_integration_auth(cred) ==
    IF api_token = ""
    THEN allow_anon
    ELSE TokenOf(cred) # "" /\ TokenOf(cred) = api_token

\* main.py: a signed-in user passes, everybody else needs the token
require_integration_access(cred) == cred = "user" \/ require_integration_auth(cred)

\* app.py: no token configured means no check
require_api_token(cred) ==
    api_token = "" \/ (TokenOf(cred) # "" /\ TokenOf(cred) = api_token)

Authorized(cred) ==
    IF variant = "main" THEN require_integration_access(cred) ELSE require_api_token(cred)

\* the access label main.py reports
AccessOf(cred) == IF cred = "user" THEN "user" ELSE "integration_token"

(* ---- requests and responses -------------------------------------------- *)
Served(op, code, body) == [op |-> op, code |-> code, body |-> body]

Unauthorized == [ok |-> FALSE, detail |-> "integration_auth_required"]

\* an unhandled exception: 500 Internal Server Error
ServerError == [ok |-> FALSE, detail |-> "Internal Server Error"]

(* ---- worker threads ----------------------------------------------------- *)
\* the threads of the server's pool that run the synchronous handlers
Threads == {1, 2}

\* no autopilot request pending
NoRequest == [settings |-> <<>>, nets |-> <<>>]

\* a thread with no request: pc is where the thread is in its handler, op the
\* request it serves, doc its local copy of the store, out what it will answer
IdleThread == [pc |-> "idle", op |-> "none", doc |-> <<>>, out |-> <<>>]

(* ---- initial state ----------------------------------------------------- *)
\* the store, the tables and the id source of a fresh deployment
InitData ==
    /\ variant \in {"main", "app"}
    /\ target_url \in {"", "http://sink"}
    /\ store = (IF variant = "main" THEN _default_integration_store ELSE _default_store)
    /\ idempotency_keys = <<>>
    /\ immutable_audit_chain = <<>>
    /\ audit_log = <<>>
    /\ next_uuid = 1
    /\ response = Served("none", 0, NoResponse)
    /\ threads = [t \in Threads |-> IdleThread]
    /\ request = NoRequest

\* token checking disabled, as in the test fixtures (INTEGRATION_API_TOKEN = "");
\* main.py then needs INTEGRATION_ALLOW_ANON to serve anybody but signed-in users
Init ==
    /\ InitData
    /\ api_token = ""
    /\ allow_anon = (variant = "main")
    /\ audit_on = FALSE
    /\ idempotency_on = TRUE
    /\ chain_on = TRUE

(* ---- handlers ---------------------------------------------------------- *)
\* the part the two enqueue handlers share once the transport is known
Enqueue(op, kind, transport, cred, idem) ==
    IF ~Authorized(cred)
    THEN /\ response' = Served(op, 401, Unauthorized)
         /\ UNCHANGED <<store, idempotency_keys, audit_log, next_uuid>>
    ELSE IF idem # "" /\ Truthy(_get_idempotency_response(idempotency_keys, idem))
    THEN /\ response' = Served(op, 200,
                DictSet(_get_idempotency_response(idempotency_keys, idem), "duplicate", TRUE))
         /\ audit_log' = log_integration_audit(audit_log,
                AuditRow(IF op = "event" THEN "event.idempotency_hit" ELSE "draft.idempotency_hit",
                         "ok", 0))
         /\ UNCHANGED <<store, idempotency_keys, next_uuid>>
    ELSE LET record == NewRecord(next_uuid, kind, transport)
             resp == [ok |-> TRUE, record_id |-> record.id, status |-> record.status]
         IN  /\ next_uuid <= MaxIds
             /\ store' = append_integration_record(store, record)
             /\ next_uuid' = next_uuid + 1
             /\ audit_log' = LogAll(audit_log,
                    <<AuditRow("queue.append", "ok", record.id)>> \o
                    (IF variant = "main"
                     THEN <<AuditRow(IF op = "event" THEN "event.accepted" ELSE "draft.accepted",
                                     "ok", record.id)>>
                     ELSE <<>>))
             /\ idempotency_keys' =
                    IF idem # ""
                    THEN _store_idempotency_response(idempotency_keys, idem, resp)
                    ELSE idempotency_keys
             /\ response' = Served(op, 200, resp)

\* POST /api/v1/integration/event
integration_event(cred, idem) ==
    /\ Enqueue("event", "integration.event", [mode |-> "target_webhook"], cred, idem)
    /\ UNCHANGED <<config, request, threads, immutable_audit_chain>>

\* POST /api/v1/integration/draft; app.py ignores connector_endpoint
integration_draft(cred, idem, connector_endpoint) ==
    /\ variant = "app" => connector_endpoint = ""
    /\ Enqueue("draft", "procurement.draft",
               IF connector_endpoint # ""
               THEN [mode |-> "endpoint", url |-> connector_endpoint]
               ELSE [mode |-> "target_webhook"],
               cred, idem)
    /\ UNCHANGED <<config, request, threads, immutable_audit_chain>>

\* the network answers a flush of this limit may meet, one per dispatched record
FlushNets(limit) ==
    LET n == IF Len(queue) < limit THEN Len(queue) ELSE limit
    IN  [1..n -> NetOutcomes]

\* a flush handler that lets a failing audit insert reach the caller
FlushAnswerNeedsAudit(f) ==
    IF f.raised \/ ~audit_on
    THEN Served("flush", 500, ServerError)
    ELSE Served("flush", 200, DictSet(f.result, "ok", TRUE))

\* what the flush handler answers once flush_integration_queue / flush_queue is
\* back: app.py refuses when no target is configured, main.py does not
FlushAnswer(f) ==
    IF f.raised
    THEN Served("flush", 500, ServerError)
    ELSE IF variant = "app" /\ ~f.result.target_configured
    THEN Served("flush", 400,
                [ok |-> FALSE, detail |-> "INTEGRATION_TARGET_WEBHOOK_URL is not configured"])
    ELSE Served("flush", 200, DictSet(f.result, "ok", TRUE))

\* POST /api/v1/integration/flush
FlushRequest(cred, limit, nets) ==
    /\ IF ~Authorized(cred)
       THEN /\ response' = Served("flush", 401, Unauthorized)
            /\ UNCHANGED <<store, audit_log>>
       ELSE LET f == flush_integration_queue(store, limit, nets)
                answer == FlushAnswer(f)
            IN  /\ store' = f.store
                /\ audit_log' = LogAll(audit_log,
                       f.audit \o (IF answer.code = 200
                                   THEN <<AuditRow("queue.flush", "ok", 0)>> ELSE <<>>))
                /\ response' = answer
    /\ UNCHANGED <<config, request, threads, idempotency_keys, immutable_audit_chain, next_uuid>>

\* the flush requests a behaviour issues: none once a record of the slice has
\* been tried AttemptCap times
integration_flush(cred, limit, nets) ==
    /\ \A i \in DOMAIN nets : queue[i].attempts < AttemptCap
    /\ FlushRequest(cred, limit, nets)

\* the network answers an autopilot run may meet, one per stage that has an
\* endpoint (200 stands in for the stages that make no call)
StageNets(settings) ==
    {nets \in [1..Len(StageNames) -> NetOutcomes] :
        \A k \in 1..Len(StageNames) : settings.endpoints[k] = "" => nets[k] = 200}

\* the payload of the chain entry an autopilot request writes
ChainPayload(cred, procedure_id, result) ==
    [access |-> AccessOf(cred), procedure_id |-> procedure_id,
     stages_success |-> result.stages_success, stages_failed |-> result.stages_failed,
     queued_retry_records |-> result.queued_retry_records]

\* what _append_immutable_audit returns to its caller
ChainReceipt(entry) ==
    [at |-> entry.at, action |-> entry.action, prev_hash |-> entry.prev_hash,
     hash |-> entry.hash]

\* POST /api/v1/enterprise/autopilot (main.py only)
enterprise_autopilot(cred, idem, settings, procedure_id, nets, at) ==
    /\ variant = "main"
    /\ IF ~Authorized(cred)
       THEN /\ at = 1
            /\ response' = Served("autopilot", 401, Unauthorized)
            /\ UNCHANGED <<store, idempotency_keys, immutable_audit_chain, audit_log, next_uuid>>
       ELSE IF idem # "" /\ Truthy(_get_idempotency_response(idempotency_keys, idem))
       THEN /\ at = 1
            /\ response' = Served("autopilot", 200,
                   DictSet(_get_idempotency_response(idempotency_keys, idem), "duplicate", TRUE))
            /\ audit_log' = log_integration_audit(audit_log,
                   AuditRow("enterprise.autopilot.idempotency_hit", "ok", 0))
            /\ UNCHANGED <<store, idempotency_keys, immutable_audit_chain, next_uuid>>
       ELSE LET r == run_enterprise_autopilot(store, next_uuid, settings, procedure_id, nets)
                immutable_on == settings.immutable_audit /\ ~r.raised
                appended == immutable_on /\ chain_on
                \* the pipeline raised, or the chain insert did: nothing after
                \* that point of the handler is executed
                failed == r.raised \/ (immutable_on /\ ~chain_on)
                chain == IF appended
                         THEN _append_immutable_audit(immutable_audit_chain, at,
                                  "enterprise.autopilot",
                                  ChainPayload(cred, procedure_id, r.result))
                         ELSE immutable_audit_chain
                resp == [ok |-> TRUE, access |-> AccessOf(cred), result |-> r.result,
                         immutable_audit |-> IF appended
                                             THEN ChainReceipt(chain[Len(chain)])
                                             ELSE <<>>]
            IN  /\ r.next_uuid <= MaxIds + 1
                /\ IF appended
                   THEN Len(immutable_audit_chain) < MaxChain
                        /\ ClockAllows(immutable_audit_chain, at)
                   ELSE at = 1
                /\ store' = r.store
                /\ next_uuid' = r.next_uuid
                /\ immutable_audit_chain' = chain
                /\ audit_log' = LogAll(audit_log,
                       r.audit \o (IF failed THEN <<>>
                                   ELSE <<AuditRow("enterprise.autopilot",
                                                   IF r.result.ok THEN "ok" ELSE "partial", 0)>>))
                /\ idempotency_keys' =
                       IF idem # "" /\ ~failed
                       THEN _store_idempotency_response(idempotency_keys, idem, resp)
                       ELSE idempotency_keys
                /\ response' = IF failed THEN Served("autopilot", 500, ServerError)
                               ELSE Served("autopilot", 200, resp)
    /\ UNCHANGED <<config, request, threads>>

\* GET /api/v1/integration/queue (the latest_* slices are left out)
integration_queue(cred) ==
    /\ IF ~Authorized(cred)
       THEN response' = Served("queue", 401, Unauthorized)
       ELSE LET doc == Load(store)
                totals == [ok |-> TRUE,
                           queue_total |-> Len(doc.queue),
                           history_total |-> Len(doc.history),
                           target_webhook_configured |-> target_url # ""]
            IN  response' = Served("queue", 200,
                    IF variant = "main"
                    THEN [access |-> AccessOf(cred),
                          enterprise_status_total |-> Len(doc.enterprise_status)] @@ totals
                    ELSE totals)
    /\ UNCHANGED <<config, request, threads, store, idempotency_keys, immutable_audit_chain,
                   audit_log, next_uuid>>

\* GET /health: no access check; the fields about the integration subsystem
health ==
    /\ LET doc == Load(store)
       IN  response' = Served("health", 200,
               IF variant = "main"
               THEN [status |-> "ok",
                     integration_queue |-> Len(doc.queue),
                     integration_history |-> Len(doc.history),
                     integration_auth_configured |-> api_token # "",
                     integration_allow_anon |-> allow_anon,
                     integration_target_webhook_configured |-> target_url # ""]
               ELSE [status |-> "ok",
                     queue |-> Len(doc.queue),
                     history |-> Len(doc.history),
                     target_configured |-> target_url # "",
                     integration_auth_configured |-> api_token # ""])
    /\ UNCHANGED <<config, request, threads, store, idempotency_keys, immutable_audit_chain,
                   audit_log, next_uuid>>

\* GET /api/v1/enterprise/health (main.py only)
enterprise_health(cred) ==
    /\ variant = "main"
    /\ IF ~Authorized(cred)
       THEN response' = Served("enterprise_health", 401, Unauthorized)
       ELSE LET doc == Load(store)
            IN  response' = Served("enterprise_health", 200,
                    [ok |-> TRUE, access |-> AccessOf(cred),
                     queue_total |-> Len(doc.queue),
                     history_total |-> Len(doc.history),
                     enterprise_status_total |-> Len(doc.enterprise_status),
                     integration_auth_configured |-> api_token # "",
                     integration_allow_anon |-> allow_anon,
                     target_webhook_configured |-> target_url # ""])
    /\ UNCHANGED <<config, request, threads, store, idempotency_keys, immutable_audit_chain,
                   audit_log, next_uuid>>

\* what the framework answers to a path no handler is registered for
NotFound == [ok |-> FALSE, detail |-> "Not Found"]

\* GET /api/v1/integration/metrics: neither backend registers this route
integration_metrics(cred) ==
    /\ response' = Served("metrics", 404, NotFound)
    /\ UNCHANGED <<config, request, threads, store, idempotency_keys, immutable_audit_chain,
                   audit_log, next_uuid>>

\* POST /api/v1/integration/audit; limit is validated to be at least 1
integration_audit(cred, limit) ==
    /\ limit >= 1
    /\ IF ~Authorized(cred)
       THEN response' = Served("audit", 401, Unauthorized)
       ELSE LET rows == SelectAudit(audit_log, limit)
            IN  response' = Served("audit", 200,
                                   [ok |-> TRUE, total |-> Len(rows), items |-> rows])
    /\ UNCHANGED <<config, request, threads, store, idempotency_keys, immutable_audit_chain,
                   audit_log, next_uuid>>

(* ---- the requests a specification issues ------------------------------- *)
\* idempotency keys: none, or one key
IdemKeys == {"", "k1"}

\* connector_endpoint values a draft may carry: none, a URL, a string that is no URL
ConnectorEndpoints == {"", "http://hook", "hook"}

Limits == 1..QueueCap

NoEndpoints == [k \in 1..Len(StageNames) |-> ""]

Settings(sim, etp, endpoints, immutable) ==
    [simulation_mode |-> sim, etp_enabled |-> etp, endpoints |-> endpoints,
     immutable_audit |-> immutable]

\* autopilot settings of the queue specification: nothing configured with
\* simulation on, and one stage (approval) configured with a real endpoint
QueueSettings ==
    {Settings(TRUE, TRUE, NoEndpoints, FALSE),
     Settings(TRUE, TRUE, [NoEndpoints EXCEPT ![2] = "http://hook"], FALSE)}

Next ==
    \/ \E idem \in IdemKeys : integration_event("none", idem)
    \/ \E idem \in IdemKeys, ep \in ConnectorEndpoints : integration_draft("none", idem, ep)
    \/ \E limit \in Limits : \E nets \in FlushNets(limit) : integration_flush("none", limit, nets)
    \/ \E settings \in QueueSettings : \E nets \in StageNets(settings) :
            enterprise_autopilot("none", "", settings, "p1", nets, 1)

Spec == Init /\ [][Next]_vars

(* ---- the idempotency cache on its own ---------------------------------- *)
CacheKeys == {"k1", "k2", "k3"}

\* the responses an enqueue handler stores
CacheResponses == {[ok |-> TRUE, record_id |-> id, status |-> "queued"] : id \in 1..MaxIds}

InitCache ==
    /\ InitData
    /\ variant = "main"
    /\ target_url = ""
    /\ api_token = ""
    /\ allow_anon = TRUE
    /\ audit_on = FALSE
    /\ idempotency_on = TRUE
    /\ chain_on = TRUE

\* a call of _store_idempotency_response(idem_key, response)
CachePut(idem_key, resp) ==
    /\ idempotency_keys' = _store_idempotency_response(idempotency_keys, idem_key, resp)
    /\ UNCHANGED <<config, request, threads, store, immutable_audit_chain, audit_log, next_uuid, response>>

\* a call of _get_idempotency_response(idem_key); the caller sees the answer
CacheGet(idem_key) ==
    /\ response' = Served("get", 200, _get_idempotency_response(idempotency_keys, idem_key))
    /\ UNCHANGED <<config, request, threads, store, idempotency_keys, immutable_audit_chain, audit_log, next_uuid>>

NextCache ==
    \/ \E idem_key \in CacheKeys, resp \in CacheResponses : CachePut(idem_key, resp)
    \/ \E idem_key \in CacheKeys : CacheGet(idem_key)

SpecCache == InitCache /\ [][NextCache]_vars

(* ---- the immutable audit chain on its own ------------------------------ *)
\* payloads an append may be given
ChainPayloads == {[procedure_id |-> p, stages_failed |-> n] : p \in {"p1", "p2"}, n \in {0, 1}}

InitChain == InitCache

\* a call of _append_immutable_audit(action, payload) at time at
ImmutableAppend(at, action, payload) ==
    /\ Len(immutable_audit_chain) < MaxChain
    /\ immutable_audit_chain' = _append_immutable_audit(immutable_audit_chain, at, action, payload)
    /\ UNCHANGED <<config, request, threads, store, idempotency_keys, audit_log, next_uuid, response>>

NextChain ==
    \E at \in Times, payload \in ChainPayloads : ImmutableAppend(at, "enterprise.autopilot", payload)

SpecChain == InitChain /\ [][NextChain]_vars

(* ---- the dispatcher on its own ----------------------------------------- *)
\* transports a stored record may carry: the default, an endpoint with no URL,
\* with a string that is no URL, with a URL, and a mode the dispatcher does not know
DispatchTransports ==
    {[mode |-> "target_webhook"], [mode |-> "ftp"]}
        \cup {[mode |-> "endpoint", url |-> u] : u \in {"", "hook", "http://hook"}}

DispatchRecords ==
    {[id |-> id, status |-> "queued", attempts |-> a, transport |-> t] :
        id \in 1..MaxIds, a \in 0..AttemptCap, t \in DispatchTransports}

InitDispatch ==
    /\ InitData
    /\ api_token = ""
    /\ allow_anon = TRUE
    /\ audit_on = FALSE
    /\ idempotency_on = TRUE
    /\ chain_on = TRUE

\* a call of _dispatch_record(record) (push_to_target in app.py) while the
\* network answers net; the caller sees what came back, or the exception
DispatchCall(record, net) ==
    /\ response' = Served("dispatch", 0,
            DictSet(DictSet(Dispatch(record, net), "record", record), "net", net))
    /\ UNCHANGED <<config, request, threads, store, idempotency_keys, immutable_audit_chain, audit_log, next_uuid>>

\* what the network answers to the call of a dispatch: statuses on both sides
\* of 200..299, and no answer at all (0: connection failure or timeout)
DispatchOutcomes == {0, 200, 204, 299, 300, 404, 500}

NextDispatch ==
    \E record \in DispatchRecords, net \in DispatchOutcomes : DispatchCall(record, net)

SpecDispatch == InitDispatch /\ [][NextDispatch]_vars

(* ---- the enqueue function on its own ----------------------------------- *)
\* a call of append_integration_record(kind, payload, source, transport)
\* (append_record in app.py, which takes no transport); the caller gets the
\* record back
AppendCall(transport) ==
    /\ variant = "app" => transport = [mode |-> "target_webhook"]
    /\ next_uuid <= MaxIds
    /\ LET record == NewRecord(next_uuid, "kind", transport)
       IN  /\ store' = append_integration_record(store, record)
           /\ audit_log' = log_integration_audit(audit_log,
                               AuditRow("queue.append", "ok", record.id))
           /\ response' = Served("append", 0, record)
    /\ next_uuid' = next_uuid + 1
    /\ UNCHANGED <<config, request, threads, idempotency_keys, immutable_audit_chain>>

NextEnqueue == \E transport \in DispatchTransports : AppendCall(transport)

SpecEnqueue == InitDispatch /\ [][NextEnqueue]_vars

(* ---- load on its own --------------------------------------------------- *)
\* the whole of load_integration_store / load_store, from the file: a file
\* that is absent, holds text that is no JSON, or JSON that is no object gives
\* the default store
LoadFile(file) ==
    IF file.kind = "object"
    THEN Load(file.value)
    ELSE IF variant = "main" THEN _default_integration_store ELSE _default_store

\* the names a store document may use for its collections
CollectionNames == {"queue", "history", "dead_letter", "enterprise_status"}

\* what a collection of a store file may hold: nothing, or a record
FileCollections == {<<>>, <<[id |-> 1, status |-> "queued", attempts |-> 0]>>}

\* JSON objects with some of the collections
FileObjects ==
    UNION {[names -> FileCollections] : names \in SUBSET CollectionNames}

\* what may be found where the store file should be
StoreFiles ==
    {[kind |-> "absent"], [kind |-> "text"], [kind |-> "list"]}
        \cup {[kind |-> "object", value |-> doc] : doc \in FileObjects}

\* a call of load_integration_store() (load_store() in app.py) over this file
LoadCall(file) ==
    /\ response' = Served("load", 0, [file |-> file, state |-> LoadFile(file)])
    /\ UNCHANGED <<config, request, threads, store, idempotency_keys, immutable_audit_chain,
                   audit_log, next_uuid>>

NextLoad == \E file \in StoreFiles : LoadCall(file)

SpecLoad == InitDispatch /\ [][NextLoad]_vars

(* ---- concurrent requests ----------------------------------------------- *)
\* what a reader finds in the store file: write_text opens the file with
\* truncation and the text reaches it when the file is closed, so while a
\* writer is between the two the file is empty
FileText == IF \E u \in Threads : threads[u].pc = "write" THEN <<>> ELSE store

ThreadOps == {"event", "flush", "autopilot"}

InitThreads ==
    /\ InitData
    /\ variant = "main"
    /\ target_url = "http://sink"
    /\ api_token = ""
    /\ allow_anon = TRUE
    /\ audit_on = FALSE
    /\ idempotency_on = TRUE
    /\ chain_on = TRUE

\* a thread takes a request and runs load_integration_store: a file that does
\* not parse gives the default store
ThreadLoad(t, op) ==
    /\ threads[t].pc = "idle"
    /\ threads' = [threads EXCEPT ![t] =
            [pc |-> "work", op |-> op, doc |-> Load(FileText), out |-> <<>>]]
    /\ UNCHANGED <<config, request, store, idempotency_keys, immutable_audit_chain, audit_log,
                   next_uuid, response>>

\* append_integration_record between its load and its save
EnqueueWork(t) ==
    /\ threads[t].pc = "work" /\ threads[t].op = "event"
    /\ next_uuid <= MaxThreadIds
    /\ LET record == NewRecord(next_uuid, "integration.event", [mode |-> "target_webhook"])
       IN  threads' = [threads EXCEPT ![t] =
                [pc |-> "save", op |-> "event",
                 doc |-> append_integration_record(threads[t].doc, record),
                 out |-> [ok |-> TRUE, record_id |-> record.id, status |-> record.status]]]
    /\ next_uuid' = next_uuid + 1
    /\ UNCHANGED <<config, request, store, idempotency_keys, immutable_audit_chain, audit_log, response>>

\* the network answers the dispatches of a flush over this document may meet
ThreadNets(doc, limit) ==
    LET q == DictGet(doc, "queue", <<>>)
        n == IF Len(q) < limit THEN Len(q) ELSE limit
    IN  [1..n -> NetOutcomes]

\* flush_integration_queue between its load and its save: the dispatch loop
FlushWork(t, limit, nets) ==
    /\ threads[t].pc = "work" /\ threads[t].op = "flush"
    /\ \A i \in DOMAIN nets : threads[t].doc.queue[i].attempts < AttemptCap
    /\ LET f == flush_integration_queue(threads[t].doc, limit, nets)
       IN  threads' = [threads EXCEPT ![t] =
                [pc |-> "save", op |-> "flush", doc |-> f.store,
                 out |-> DictSet(f.result, "ok", TRUE)]]
    /\ UNCHANGED <<config, request, store, idempotency_keys, immutable_audit_chain, audit_log,
                   next_uuid, response>>

\* run_enterprise_autopilot with nothing configured, between the load and the
\* save of its status snapshot
AutopilotWork(t) ==
    /\ threads[t].pc = "work" /\ threads[t].op = "autopilot"
    /\ LET r == run_enterprise_autopilot(threads[t].doc, next_uuid,
                    Settings(TRUE, TRUE, NoEndpoints, FALSE), "p1",
                    [k \in 1..Len(StageNames) |-> 200])
       IN  threads' = [threads EXCEPT ![t] =
                [pc |-> "save", op |-> "autopilot", doc |-> r.store,
                 out |-> [ok |-> TRUE, result |-> r.result]]]
    /\ UNCHANGED <<config, request, store, idempotency_keys, immutable_audit_chain, audit_log,
                   next_uuid, response>>

\* save_integration_store: write_text opens the file, which truncates it
SaveOpen(t) ==
    /\ threads[t].pc = "save"
    /\ threads' = [threads EXCEPT ![t].pc = "write"]
    /\ UNCHANGED <<config, request, store, idempotency_keys, immutable_audit_chain, audit_log,
                   next_uuid, response>>

\* write_text writes the document and closes the file; the handler answers
SaveClose(t) ==
    /\ threads[t].pc = "write"
    /\ store' = threads[t].doc
    /\ response' = Served(threads[t].op, 200, threads[t].out)
    /\ threads' = [threads EXCEPT ![t] = IdleThread]
    /\ UNCHANGED <<config, request, idempotency_keys, immutable_audit_chain, audit_log, next_uuid>>

NextThreads ==
    \/ \E t \in Threads, op \in ThreadOps : ThreadLoad(t, op)
    \/ \E t \in Threads : EnqueueWork(t)
    \/ \E t \in Threads :
            \E nets \in ThreadNets(threads[t].doc, QueueCap) : FlushWork(t, QueueCap, nets)
    \/ \E t \in Threads : AutopilotWork(t)
    \/ \E t \in Threads : SaveOpen(t)
    \/ \E t \in Threads : SaveClose(t)

SpecThreads == InitThreads /\ [][NextThreads]_vars

(* ---- repeated flushes --------------------------------------------------- *)
\* flushes go on until a record has been tried once more than the retry budget
RetryCap == INTEGRATION_MAX_ATTEMPTS + 1

FlushRetry(limit, nets) ==
    /\ \A i \in DOMAIN nets : queue[i].attempts < RetryCap
    /\ FlushRequest("none", limit, nets)

NextRetry ==
    \/ integration_event("none", "")
    \/ \E limit \in Limits : \E nets \in FlushNets(limit) : FlushRetry(limit, nets)

SpecRetry == Init /\ [][NextRetry]_vars

(* ---- autopilot runs ----------------------------------------------------- *)
\* the endpoint a stage may be given: none, a URL, or text that is no URL
StageEndpoints == {"", "http://hook", "hook"}

\* the settings of an autopilot request (body.settings), immutable audit off
AutopilotSettings ==
    {Settings(sim, etp, endpoints, FALSE) :
        sim \in BOOLEAN, etp \in BOOLEAN,
        endpoints \in [1..Len(StageNames) -> StageEndpoints]}

\* a request and the answers the network will give to its stage calls
AutopilotRequests ==
    {r \in [settings : AutopilotSettings, nets : [1..Len(StageNames) -> NetOutcomes]] :
        r.nets \in StageNets(r.settings)}

InitAutopilot ==
    /\ variant = "main"
    /\ target_url = "http://sink"
    /\ api_token = ""
    /\ allow_anon = TRUE
    /\ audit_on = FALSE
    /\ idempotency_on = TRUE
    /\ chain_on = TRUE
    /\ store = _default_integration_store
    /\ idempotency_keys = <<>>
    /\ immutable_audit_chain = <<>>
    /\ audit_log = <<>>
    /\ next_uuid = 1
    /\ response = Served("none", 0, NoResponse)
    /\ threads = [t \in Threads |-> IdleThread]
    /\ request \in AutopilotRequests

\* the client sends its request (again, if it has sent it before)
AutopilotRun ==
    enterprise_autopilot("none", "", request.settings, "p1", request.nets, 1)

NextAutopilot ==
    \/ integration_event("none", "")
    \/ AutopilotRun

SpecAutopilot == InitAutopilot /\ [][NextAutopilot]_vars

(* ---- requests while the audit database fails ---------------------------- *)
InitBestEffort ==
    /\ InitData
    /\ variant = "main"
    /\ target_url = "http://sink"
    /\ api_token = ""
    /\ allow_anon = TRUE
    /\ audit_on \in BOOLEAN
    /\ idempotency_on \in BOOLEAN
    /\ chain_on = TRUE

\* the audit database stops taking inserts (its volume is full, say)
DatabaseFails ==
    /\ audit_on \/ idempotency_on
    /\ audit_on' = FALSE
    /\ idempotency_on' = FALSE
    /\ chain_on' = FALSE
    /\ UNCHANGED <<variant, target_url, api_token, allow_anon, store, idempotency_keys,
                   immutable_audit_chain, audit_log, next_uuid, response, threads, request>>

\* every request carries the idempotency key k1
NextBestEffort ==
    \/ DatabaseFails
    \/ integration_event("none", "k1")
    \/ \E nets \in FlushNets(QueueCap) : integration_flush("none", QueueCap, nets)
    \/ \E settings \in QueueSettings : \E nets \in StageNets(settings) :
           enterprise_autopilot("none", "k1", settings, "p1", nets, 1)

SpecBestEffort == InitBestEffort /\ [][NextBestEffort]_vars

(* ---- access control ---------------------------------------------------- *)
\* deployments with and without an API token; INTEGRATION_ALLOW_ANON exists in
\* main.py only
InitAccess ==
    /\ InitData
    /\ api_token \in {"", "secret-token"}
    /\ allow_anon \in (IF variant = "main" THEN BOOLEAN ELSE {FALSE})
    /\ audit_on = FALSE
    /\ idempotency_on = TRUE
    /\ chain_on = TRUE

NextAccess ==
    \/ \E cred \in Creds : integration_event(cred, "")
    \/ \E cred \in Creds : integration_queue(cred)

SpecAccess == InitAccess /\ [][NextAccess]_vars

(* ---- health views ------------------------------------------------------ *)
\* how long the oldest queued record has been waiting when a health view is
\* asked for: less than the staleness threshold, or more
Ages == {"fresh", "stale"}

\* GET /health at such a moment; the handler reads no clock and no created_at
HealthCall(age) == age \in Ages /\ health

\* GET /api/v1/enterprise/health at such a moment
EnterpriseHealthCall(age) == age \in Ages /\ enterprise_health("none")

NextHealth ==
    \/ integration_event("none", "")
    \/ \E limit \in Limits : \E nets \in FlushNets(limit) : integration_flush("none", limit, nets)
    \/ \E age \in Ages : HealthCall(age)
    \/ \E age \in Ages : EnterpriseHealthCall(age)

SpecHealth == Init /\ [][NextHealth]_vars

(* ---- queue and metrics views ------------------------------------------- *)
NextViews ==
    \/ integration_event("none", "")
    \/ \E limit \in Limits : \E nets \in FlushNets(limit) : integration_flush("none", limit, nets)
    \/ integration_queue("none")
    \/ integration_metrics("none")

SpecViews == Init /\ [][NextViews]_vars

(* ---- the audit log ------------------------------------------------------ *)
\* a deployment whose audit database takes inserts
InitAudit ==
    /\ InitData
    /\ api_token = ""
    /\ allow_anon = TRUE
    /\ audit_on = TRUE
    /\ idempotency_on = TRUE
    /\ chain_on = TRUE

AuditLimits == 1..MaxAudit

NextAudit ==
    \/ \E idem \in IdemKeys : integration_event("none", idem)
    \/ \E nets \in FlushNets(QueueCap) : integration_flush("none", QueueCap, nets)
    \/ \E limit \in AuditLimits : integration_audit("none", limit)

SpecAudit == InitAudit /\ [][NextAudit]_vars

(* ---- autopilot requests with chain entries and idempotency keys --------- *)
\* settings with the first two stages simulated, the last two configured or
\* not, and the immutable audit asked for or not
ChainedSettings(endpoints) ==
    {Settings(TRUE, FALSE, [NoEndpoints EXCEPT ![3] = erp, ![4] = crypto], immutable) :
        erp \in {"", "http://hook"}, crypto \in endpoints, immutable \in BOOLEAN}

ChainedRequests(endpoints) ==
    {r \in [settings : ChainedSettings(endpoints),
            nets : [1..Len(StageNames) -> NetOutcomes]] :
        r.nets \in StageNets(r.settings)}

\* the main backend, no token configured, the client about to send one of
\* the given requests
InitRuns(requests) ==
    /\ variant = "main"
    /\ target_url = ""
    /\ api_token = ""
    /\ allow_anon = TRUE
    /\ audit_on = FALSE
    /\ idempotency_on = TRUE
    /\ chain_on = TRUE
    /\ store = _default_integration_store
    /\ idempotency_keys = <<>>
    /\ immutable_audit_chain = <<>>
    /\ audit_log = <<>>
    /\ next_uuid = 1
    /\ response = Served("none", 0, NoResponse)
    /\ threads = [t \in Threads |-> IdleThread]
    /\ request \in requests

InitChained == InitRuns(ChainedRequests(StageEndpoints))

\* the client sends its request with or without an idempotency key
ChainedRun(idem, at) ==
    enterprise_autopilot("none", idem, request.settings, "p1", request.nets, at)

NextChained == \E idem \in IdemKeys, at \in Times : ChainedRun(idem, at)

SpecChained == InitChained /\ [][NextChained]_vars

(* ---- a request repeated under one idempotency key ----------------------- *)
\* every stage endpoint is empty or well formed and the immutable audit is on
InitRepeat ==
    InitRuns({r \in ChainedRequests({"", "http://hook"}) : r.settings.immutable_audit})

\* the audit database stops taking inserts into the chain table, or takes them
\* again
ChainInsertFlips ==
    /\ chain_on' = ~chain_on
    /\ UNCHANGED <<variant, target_url, api_token, allow_anon, audit_on, idempotency_on,
                   store, idempotency_keys, immutable_audit_chain, audit_log, next_uuid,
                   response, threads, request>>

\* the request is sent, and sent again, always under the key k1
RepeatRun(at) == ChainedRun("k1", at)

NextRepeat ==
    \/ ChainInsertFlips
    \/ \E at \in Times : RepeatRun(at)

SpecRepeat == InitRepeat /\ [][NextRepeat]_vars

(* ---- autopilot runs in simulation --------------------------------------- *)
\* the values uuid.uuid4() may return in a run
SimUuids == 1..3

\* payloads, told apart by the number of entries of their "items" list
SimPayloads == {[items |-> 0], [items |-> 2]}

\* settings.ecmApprovalRoute after splitting at "->": empty, or two steps
SimRoutes == {<<>>, <<"A", "B">>}

\* hashlib.sha256(json.dumps(payload, sort_keys=True)).hexdigest(), as an
\* injective function of the payload
PayloadDigest(payload) == <<"sha256", payload>>

\* the four default approval steps (jurist, information security, financial
\* control, head) used when the route is empty
DefaultRoute == <<"jurist", "infosec", "fincontrol", "head">>

\* the erp modules synchronised with the default erpSync* switches
ErpModules == <<"nsi", "budget", "contracts", "limits">>

\* the data of a simulated stage k; uuids are the values uuid4 returned for
\* the approval stage and the signing stage
SimulatedData(k, req, uuids) ==
    CASE k = 1 -> [procedure_id |-> req.procedure_id, status |-> "draft",
                   source |-> "simulation_mode"]
      [] k = 2 -> [route |-> IF req.route = <<>> THEN DefaultRoute ELSE req.route,
                   request_id |-> <<"SIM-ECM", uuids[1]>>]
      [] k = 3 -> [modules |-> ErpModules,
                   synced_items |-> Len(ErpModules) *
                       (IF req.payload.items > 1 THEN req.payload.items ELSE 1)]
      [] OTHER -> [digest_sha256 |-> PayloadDigest(req.payload),
                   signature_id |-> <<"SIM-SIGN", uuids[2]>>,
                   provider |-> "cryptopro"]

\* add_stage with its data argument: the data of a simulated stage, and no
\* data for a skipped one
StageWithData(stage, k, req, uuids) ==
    [name |-> stage.name, ok |-> stage.ok, detail |-> stage.detail,
     data |-> IF stage.detail = "simulated" THEN SimulatedData(k, req, uuids) ELSE <<>>]

\* no endpoint configured, simulation on, the status stage enabled or not
SimRequests ==
    [settings : {Settings(TRUE, etp, NoEndpoints, FALSE) : etp \in BOOLEAN},
     nets : [1..Len(StageNames) -> {200}],
     payload : SimPayloads, procedure_id : {"p1", "p2"}, route : SimRoutes]

InitSimulation == InitRuns(SimRequests)

\* a call of run_enterprise_autopilot(payload, settings, procedure_id) with the
\* data of its stages
SimulationCall(uuids) ==
    LET r == run_enterprise_autopilot(store, next_uuid, request.settings,
                                      request.procedure_id, request.nets)
        stages == [k \in 1..Len(r.result.stages) |->
                      StageWithData(r.result.stages[k], k, request, uuids)]
        last == Len(r.store.enterprise_status)
    IN  /\ ~r.raised
        /\ store' = [r.store EXCEPT !.enterprise_status[last].stages = stages]
        /\ next_uuid' = r.next_uuid
        /\ response' = Served("run", 200, [r.result EXCEPT !.stages = stages])
        /\ UNCHANGED <<config, request, threads, idempotency_keys, immutable_audit_chain,
                       audit_log>>

NextSimulation == \E uuids \in [1..2 -> SimUuids] : SimulationCall(uuids)

SpecSimulation == InitSimulation /\ [][NextSimulation]_vars

(* ---- two enqueue requests in flight with idempotency keys --------------- *)
RaceKeys == {"k1", "k2", "k3"}

\* a thread takes POST /api/v1/integration/event with key idem and performs the
\* cache lookup: a hit is answered at once, a miss goes on to the append
EventLookup(t, idem) ==
    /\ threads[t].pc = "idle"
    /\ LET prev == _get_idempotency_response(idempotency_keys, idem)
       IN  threads' = [threads EXCEPT ![t] =
               IF Truthy(prev)
               THEN [pc |-> "done", op |-> "event", doc |-> idem,
                     out |-> DictSet(prev, "duplicate", TRUE)]
               ELSE [pc |-> "append", op |-> "event", doc |-> idem, out |-> <<>>]]
    /\ UNCHANGED <<config, request, store, idempotency_keys, immutable_audit_chain,
                   audit_log, next_uuid, response>>

\* append_integration_record, taken as one step here (its own load and save
\* are interleaved in the threads specification)
EventAppend(t) ==
    /\ threads[t].pc = "append"
    /\ LET record == NewRecord(next_uuid, "integration.event", [mode |-> "target_webhook"])
       IN  /\ store' = append_integration_record(store, record)
           /\ threads' = [threads EXCEPT ![t].pc = "store",
                                         ![t].out = [ok |-> TRUE, record_id |-> record.id,
                                                     status |-> record.status]]
    /\ next_uuid' = next_uuid + 1
    /\ UNCHANGED <<config, request, idempotency_keys, immutable_audit_chain, audit_log,
                   response>>

\* _store_idempotency_response, and the response goes out
EventStore(t) ==
    /\ threads[t].pc = "store"
    /\ idempotency_keys' =
           _store_idempotency_response(idempotency_keys, threads[t].doc, threads[t].out)
    /\ threads' = [threads EXCEPT ![t].pc = "done"]
    /\ response' = Served("event", 200, threads[t].out)
    /\ UNCHANGED <<config, request, store, immutable_audit_chain, audit_log, next_uuid>>

NextRace ==
    \/ \E t \in Threads, idem \in RaceKeys : EventLookup(t, idem)
    \/ \E t \in Threads : EventAppend(t)
    \/ \E t \in Threads : EventStore(t)

SpecRace == InitThreads /\ [][NextRace]_vars

(* ---- two writers of the immutable audit chain --------------------------- *)
\* _append_immutable_audit up to its SELECT: the thread reads the hash of the
\* latest entry (the sentinel when there is none); the SELECT runs outside any
\* write transaction, so nothing keeps another writer out
ChainRead(t, payload) ==
    /\ threads[t].pc = "idle"
    /\ threads' = [threads EXCEPT ![t] =
           [pc |-> "insert", op |-> "chain", out |-> payload,
            doc |-> IF immutable_audit_chain = <<>> THEN genesis
                    ELSE immutable_audit_chain[Len(immutable_audit_chain)].hash]]
    /\ UNCHANGED <<config, request, store, idempotency_keys, immutable_audit_chain,
                   audit_log, next_uuid, response>>

\* the INSERT and the commit: the row gets the next id and carries the
\* prev_hash the thread read
ChainInsert(t, at) ==
    /\ threads[t].pc = "insert"
    /\ Len(immutable_audit_chain) < MaxChain
    /\ LET payload_json == Canonical(threads[t].out)
           prev_hash == threads[t].doc
       IN  immutable_audit_chain' = Append(immutable_audit_chain,
               [id |-> Len(immutable_audit_chain) + 1, at |-> at,
                action |-> "enterprise.autopilot", payload_json |-> payload_json,
                prev_hash |-> prev_hash,
                hash |-> Sha256(at, "enterprise.autopilot", payload_json, prev_hash)])
    /\ threads' = [threads EXCEPT ![t] = IdleThread]
    /\ UNCHANGED <<config, request, store, idempotency_keys, audit_log, next_uuid, response>>

NextWriters ==
    \/ \E t \in Threads, payload \in ChainPayloads : ChainRead(t, payload)
    \/ \E t \in Threads, at \in Times : ChainInsert(t, at)

SpecWriters == InitThreads /\ [][NextWriters]_vars

(* ======================================================================== *)
(* Properties                                                               *)
(* ======================================================================== *)
\* the records a store document holds in queue and history
StoreRecords(doc) ==
    {doc.queue[i] : i \in 1..Len(doc.queue)} \cup {doc.history[i] : i \in 1..Len(doc.history)}

Present(doc, id) == \E r \in StoreRecords(doc) : r.id = id

AttemptsIn(doc, id) == (CHOOSE r \in StoreRecords(doc) : r.id = id).attempts

NoDuplicates(xs) == Cardinality(Ids(xs)) = Len(xs)

\* C1: a record that has failed delivery INTEGRATION_MAX_ATTEMPTS times has
\* left queue for dead_letter, so no queued record has that many attempts and
\* every dead-lettered record has exactly that many
C1_DeadLetterAfterMaxAttempts ==
    /\ \A i \in 1..Len(queue) : queue[i].attempts < INTEGRATION_MAX_ATTEMPTS
    /\ \A i \in 1..Len(dead_letter) : dead_letter[i].attempts = INTEGRATION_MAX_ATTEMPTS

\* C2: attempts starts at 0, never decreases, grows by exactly 1 in every flush
\* call whose first-limit slice holds the record, and no other call changes it
C2_AttemptsCountFlushPasses ==
    [][/\ \A r \in StoreRecords(store') : ~Present(store, r.id) => r.attempts = 0
       /\ \A r \in StoreRecords(store) :
            Present(store', r.id) => AttemptsIn(store', r.id) >= r.attempts
       /\ \A limit \in Limits : \A nets \in FlushNets(limit) :
            integration_flush("none", limit, nets) =>
                \A i \in 1..Len(queue) :
                    Present(store', queue[i].id) =>
                        AttemptsIn(store', queue[i].id) =
                            queue[i].attempts + (IF i \in DOMAIN nets THEN 1 ELSE 0)
       /\ response'.op # "flush" =>
            \A r \in StoreRecords(store) :
                Present(store', r.id) => AttemptsIn(store', r.id) = r.attempts
      ]_vars

\* C3: every record id is in exactly one of queue, history and dead_letter,
\* once, and the record's status names the collection it is in
C3_OneCollectionPerRecord ==
    /\ NoDuplicates(queue) /\ NoDuplicates(history) /\ NoDuplicates(dead_letter)
    /\ Ids(queue) \cap Ids(history) = {}
    /\ Ids(queue) \cap Ids(dead_letter) = {}
    /\ Ids(history) \cap Ids(dead_letter) = {}
    /\ \A i \in 1..Len(queue) : queue[i].status = "queued"
    /\ \A i \in 1..Len(history) : history[i].status = "sent"
    /\ \A i \in 1..Len(dead_letter) : dead_letter[i].status = "dead_letter"

\* a flush has delivered one record and kept another for retry
C3_Witness ==
    /\ Len(history) >= 1
    /\ \E i \in 1..Len(queue) : queue[i].attempts >= 1

\* C4: of two enqueue requests (event or draft) with the same non-empty key the
\* first creates exactly one record and arms the replay with its response, the
\* second appends nothing and answers that response (same record_id and status);
\* a stored response never changes
C4_IdempotentEnqueue ==
    [][/\ \A k \in DOMAIN idempotency_keys :
            k \in DOMAIN idempotency_keys' /\ idempotency_keys'[k] = idempotency_keys[k]
       /\ \A idem \in IdemKeys \ {""} : \A ep \in ConnectorEndpoints :
            (integration_event("none", idem) \/ integration_draft("none", idem, ep)) =>
                IF idem \in DOMAIN idempotency_keys
                THEN /\ store' = store
                     /\ next_uuid' = next_uuid
                     /\ response'.code = 200
                     /\ response'.body.record_id = idempotency_keys[idem].record_id
                     /\ response'.body.status = idempotency_keys[idem].status
                ELSE /\ Ids(queue') \ Ids(queue) = {response'.body.record_id}
                     /\ Len(SelectSeq(queue', LAMBDA r : r.id = response'.body.record_id)) = 1
                     /\ idem \in DOMAIN idempotency_keys'
                     /\ idempotency_keys'[idem] = response'.body
      ]_vars

\* a request was answered from the idempotency cache
C4_Witness ==
    /\ response.op \in {"event", "draft"}
    /\ DictGet(response.body, "duplicate", FALSE)

\* C5: once a key has a stored response, a put with the same key changes
\* nothing: get(key) keeps returning the response of the first put
C5_FirstPutWins ==
    [][\A idem_key \in CacheKeys : \A resp \in CacheResponses :
            CachePut(idem_key, resp) =>
                _get_idempotency_response(idempotency_keys', idem_key) =
                    IF Truthy(_get_idempotency_response(idempotency_keys, idem_key))
                    THEN _get_idempotency_response(idempotency_keys, idem_key)
                    ELSE resp
      ]_vars

\* C6: the chain in id order is linked: the first prev_hash is the sentinel,
\* every later prev_hash is the stored hash of the entry before, and every
\* stored hash is the digest of the entry's own at, action, payload and prev_hash
C6_ChainLinked ==
    \A i \in 1..Len(immutable_audit_chain) :
        LET e == immutable_audit_chain[i]
        IN  /\ e.id = i
            /\ e.prev_hash = (IF i = 1 THEN genesis ELSE immutable_audit_chain[i - 1].hash)
            /\ e.hash = Sha256(e.at, e.action, e.payload_json, e.prev_hash)

\* the chain holds as many entries as the bound allows
C6_Witness == Len(immutable_audit_chain) = MaxChain

\* verification in order: the digest recomputed for entry j from its at, action
\* and payload and from the digest recomputed for the entry before it
RECURSIVE Recomputed(_, _)
Recomputed(chain, j) ==
    Sha256(chain[j].at, chain[j].action, chain[j].payload_json,
           IF j = 1 THEN genesis ELSE Recomputed(chain, j - 1))

Verifies(chain, j) == Recomputed(chain, j) = chain[j].hash

\* the chain with the payload of entry i replaced and nothing else touched
Tampered(chain, i, payload) == [chain EXCEPT ![i].payload_json = Canonical(payload)]

\* C7: whichever entry i has its payload changed, verification in order fails
\* for i and every entry after it and succeeds for every entry before it
C7_TamperEvidence ==
    \A i \in 1..Len(immutable_audit_chain) : \A payload \in ChainPayloads :
        Canonical(payload) # immutable_audit_chain[i].payload_json =>
            \A j \in 1..Len(immutable_audit_chain) :
                Verifies(Tampered(immutable_audit_chain, i, payload), j) <=> j < i

\* a three-entry chain that verifies, and a changed payload of its middle entry
\* after which entry 1 still verifies and entries 2 and 3 do not
C7_Witness ==
    /\ Len(immutable_audit_chain) = 3
    /\ \A j \in 1..3 : Verifies(immutable_audit_chain, j)
    /\ \E payload \in ChainPayloads :
        LET t == Tampered(immutable_audit_chain, 2, payload)
        IN  t # immutable_audit_chain /\ Verifies(t, 1) /\ ~Verifies(t, 2) /\ ~Verifies(t, 3)

IdSeq(xs) == [i \in 1..Len(xs) |-> xs[i].id]

\* the ids handed out in a step, in order
FreshIds == [k \in 1..(next_uuid' - next_uuid) |-> next_uuid + k - 1]

\* the ids of the records a flush step took out of the queue, in queue order
SentIds == SelectSeq(IdSeq(queue), LAMBDA id : id \notin Ids(queue'))

C8_Capacity ==
    /\ Len(queue) <= QueueCap
    /\ Len(history) <= HistoryCap
    /\ Len(dead_letter) <= HistoryCap
    /\ Len(enterprise_status) <= EnterpriseStatusCap

\* C8: no collection ever holds more than its capacity, and every step leaves
\* each collection equal to the last capacity-many of (what it held, then what
\* the step inserted, in insertion order): the oldest entries go, the newest stay
C8_BoundedFifo ==
    /\ []C8_Capacity
    /\ [][IF response'.op = "flush"
          THEN /\ IdSeq(history') = LastN(IdSeq(history) \o SentIds, HistoryCap)
               /\ IdSeq(queue') = SelectSeq(IdSeq(queue), LAMBDA id : id \in Ids(queue'))
               /\ enterprise_status' = enterprise_status
          ELSE /\ IdSeq(queue') = LastN(IdSeq(queue) \o FreshIds, QueueCap)
               /\ history' = history
               /\ IF response'.op = "autopilot" /\ response'.code = 200
                  THEN /\ Len(enterprise_status') >= 1
                       /\ enterprise_status' =
                            LastN(Append(enterprise_status,
                                         enterprise_status'[Len(enterprise_status')]),
                                  EnterpriseStatusCap)
                       /\ enterprise_status'[Len(enterprise_status')].stages =
                            response'.body.result.stages
                  ELSE enterprise_status' = enterprise_status
         ]_vars

\* more records were enqueued than the queue holds and none was delivered: the
\* oldest one has been evicted
C8_Witness ==
    /\ Len(queue) = QueueCap
    /\ history = <<>>
    /\ next_uuid > QueueCap + 1
    /\ \A i \in 1..Len(queue) : queue[i].id = next_uuid - 1 - Len(queue) + i

\* the transport mode of a record (app.py records have one transport only)
ModeOf(record) == DictGet(record, "transport", [mode |-> "target_webhook"]).mode

\* C9: with no target configured and one fresh record queued, a flush answers
\* processed = 1, success = 0, failed = 1, dead_lettered = 0 and leaves the
\* record in queue with status queued and attempts = 1
C9_ScenarioA ==
    [][(/\ target_url = ""
        /\ Len(queue) = 1
        /\ queue[1].attempts = 0
        /\ ModeOf(queue[1]) = "target_webhook"
        /\ \E limit \in Limits : \E nets \in FlushNets(limit) :
                integration_flush("none", limit, nets))
       => /\ response'.code = 200
          /\ DictGet(response'.body, "processed", -1) = 1
          /\ DictGet(response'.body, "success", -1) = 0
          /\ DictGet(response'.body, "failed", -1) = 1
          /\ DictGet(response'.body, "dead_lettered", -1) = 0
          /\ Len(queue') = 1
          /\ queue'[1].id = queue[1].id
          /\ queue'[1].status = "queued"
          /\ queue'[1].attempts = 1
      ]_vars

\* C10: every flush request is answered with the structured result, whatever
\* the dispatches did and whether or not a target is configured; in particular
\* no flush that changed the store is answered with an error
C10_FlushAlwaysAnswers ==
    [][(\E limit \in Limits : \E nets \in FlushNets(limit) :
            integration_flush("none", limit, nets))
       => /\ response'.code = 200
          /\ {"processed", "success", "failed", "queue_remaining"} \subseteq DOMAIN response'.body
      ]_vars

\* C11: every dispatch call returns a pair (ok, diagnostic) and raises nothing,
\* whatever the record's transport and the network's answer; ok is true only
\* when the outbound call was answered with a 2xx status
C11_DispatchNeverThrows ==
    response.op = "dispatch" =>
        /\ ~response.body.raised
        /\ response.body.ok => (200 <= response.body.net /\ response.body.net < 300)

\* the record with this id in a sequence of records
RecordIn(xs, id) == CHOOSE r \in {xs[i] : i \in 1..Len(xs)} : r.id = id

\* C12: a flush call dispatches every record of its slice, whatever happened to
\* the records before it, and saves the outcome of each: a record still queued
\* afterwards carries one more attempt and the diagnostic of this dispatch, a
\* record no longer queued was delivered
C12_FailureNeverAbortsBatch ==
    [][\A limit \in Limits : \A nets \in FlushNets(limit) :
            integration_flush("none", limit, nets) =>
                \A i \in DOMAIN nets :
                    IF queue[i].id \in Ids(queue')
                    THEN /\ RecordIn(queue', queue[i].id).attempts = queue[i].attempts + 1
                         /\ RecordIn(queue', queue[i].id).status = "queued"
                         /\ "last_result" \in DOMAIN RecordIn(queue', queue[i].id)
                    ELSE /\ nets[i] = 200
                         /\ queue[i].id \in Ids(history') =>
                                /\ RecordIn(history', queue[i].id).attempts = queue[i].attempts + 1
                                /\ RecordIn(history', queue[i].id).status = "sent"
      ]_vars

\* capacity eviction needs more records than the smaller collection holds
EvictionPossible == next_uuid' - 1 > (IF QueueCap < HistoryCap THEN QueueCap ELSE HistoryCap)

\* C13: whatever the interleaving of concurrent enqueue, flush and autopilot
\* requests, a record that is in the store stays in exactly one of queue and
\* history unless capacity evicted it, and a status snapshot that is in the
\* store stays there
C13_NoLostUpdates ==
    [][/\ \A id \in Ids(queue) \cup Ids(history) :
            id \in Ids(queue') \cup Ids(history') \/ EvictionPossible
       /\ Ids(queue') \cap Ids(history') = {}
       /\ NoDuplicates(queue') /\ NoDuplicates(history')
       /\ Len(enterprise_status') >= Len(enterprise_status)
      ]_vars

\* C14: a load that runs while another thread saves returns the complete
\* document of before the save or the complete document being saved, never the
\* default store in place of either
C14_SaveAtomicForLoad ==
    [][\A t \in Threads :
            (threads[t].pc = "idle" /\ threads'[t].pc = "work") =>
                \/ threads'[t].doc = Load(store)
                \/ \E u \in Threads :
                        threads[u].pc = "write" /\ threads'[t].doc = Load(threads[u].doc)
      ]_vars

\* the ids the dispatch loop of a flush over this document dispatches
DispatchedIds(doc, processed) == {doc.queue[i].id : i \in 1..processed}

\* C15: a record that is in history with status sent is never put back into
\* queue, never changes its status or attempts, and is never dispatched again,
\* whatever the interleaving of concurrent requests
C15_SentIsTerminal ==
    [][\A i \in 1..Len(history) :
            /\ history[i].id \notin Ids(queue')
            /\ history[i].id \in Ids(history') =>
                    /\ RecordIn(history', history[i].id).status = "sent"
                    /\ RecordIn(history', history[i].id).attempts = history[i].attempts
            /\ \A t \in Threads :
                    (threads[t].pc = "work" /\ threads[t].op = "flush"
                        /\ threads'[t].pc = "save") =>
                    history[i].id \notin DispatchedIds(threads[t].doc, threads'[t].out.processed)
      ]_vars

\* C16: retry is bounded: no flush dispatches a record that has already failed
\* INTEGRATION_MAX_ATTEMPTS times, because such a record has left the queue for
\* dead_letter, so that the records behind it get their turn
C16_BoundedRetry ==
    [][\A limit \in Limits : \A nets \in FlushNets(limit) :
            FlushRetry(limit, nets) =>
                \A i \in DOMAIN nets : queue[i].attempts < INTEGRATION_MAX_ATTEMPTS
      ]_vars

\* the request of scenario C: no stage has an endpoint, simulation is on and
\* the status sync is enabled, as it is by default
ScenarioC(req) ==
    /\ req.settings.endpoints = NoEndpoints
    /\ req.settings.simulation_mode
    /\ req.settings.etp_enabled

StageEnabled(req, k) == (k = 1) => req.settings.etp_enabled

\* the run of the request reaches stage k and makes its external call: the
\* stage has a URL as endpoint and no stage before it was given text that is
\* no URL
Called(req, k) ==
    /\ StageEnabled(req, k)
    /\ req.settings.endpoints[k] \in WellFormedUrls
    /\ \A j \in 1..(k - 1) :
          StageEnabled(req, j) => req.settings.endpoints[j] \in WellFormedUrls \cup {""}

\* ... and the call fails
CallFails(req, k) == Called(req, k) /\ ~(200 <= req.nets[k] /\ req.nets[k] < 300)

\* C18: in an autopilot run, every stage whose external call fails gets
\* ok = false, one retry record with transport mode endpoint is appended to
\* the queue for it and its id listed in queued_retry_records, the stages after
\* it still run and the overall ok is false; so there are as many queued retry
\* records as failed stages, and a run without a failing call queues nothing
C18_FailedStageQueuesRetry ==
    [][(response'.op = "autopilot") =>
          LET failing == {k \in 1..Len(StageNames) : CallFails(request, k)}
          IN  /\ failing # {} =>
                    /\ response'.code = 200
                    /\ LET result == response'.body.result
                       IN  /\ Len(result.stages) = Len(StageNames)
                           /\ \A k \in failing : ~result.stages[k].ok
                           /\ ~result.ok
                           /\ result.stages_failed = Cardinality(failing)
                           /\ Len(result.queued_retry_records) = result.stages_failed
                           /\ result.queued_retry_records = FreshIds
                           /\ IdSeq(queue') =
                                  LastN(IdSeq(queue) \o result.queued_retry_records, QueueCap)
                           /\ \A i \in 1..Len(queue') :
                                  queue'[i].id \in Ids(queue) \/ ModeOf(queue'[i]) = "endpoint"
              /\ (failing = {} /\ response'.code = 200) =>
                    /\ response'.body.result.queued_retry_records = <<>>
                    /\ queue' = queue]_vars

\* the stages of a result that count as failed: ok false and not a skip
FailedStages(result) ==
    {k \in 1..Len(result.stages) :
        ~result.stages[k].ok /\ result.stages[k].detail # "skipped_not_configured"}

\* C19: the overall ok of an autopilot result is true exactly when
\* stages_failed = 0, where a stage counts as failed exactly when its ok is
\* false and it is not a skip; a run of successes and skips only has ok = true
C19_OkIffNoFailedStage ==
    (response.op = "autopilot" /\ response.code = 200) =>
        LET result == response.body.result
        IN  /\ result.stages_failed = Cardinality(FailedStages(result))
            /\ result.ok <=> (result.stages_failed = 0)
            /\ result.ok <=> (FailedStages(result) = {})

\* a run of successes and skips only has answered ok
C19_Witness ==
    /\ response.op = "autopilot"
    /\ response.code = 200
    /\ response.body.result.stages_skipped > 0
    /\ response.body.result.stages_success > 0
    /\ response.body.result.stages_failed = 0
    /\ response.body.result.ok

Supported(transport) ==
    \/ transport.mode = "target_webhook"
    \/ transport.mode = "endpoint" /\ transport.url # ""

\* C21: an enqueue with a transport whose mode is neither target_webhook nor
\* endpoint, or with an endpoint transport without URL, is rejected with an
\* error and puts no record in the queue
C21_BadTransportRejected ==
    [][\A transport \in DispatchTransports :
            (AppendCall(transport) /\ ~Supported(transport)) =>
                /\ response'.code >= 400
                /\ queue' = queue]_vars

\* the three collections the store is specified to hold
SpecCollections == {"queue", "history", "dead_letter"}

\* C22: load never fails: over a store file that is absent, unreadable, no
\* JSON or no object it returns a state in which queue, history and
\* dead_letter are all present and empty; over a document that lacks a
\* collection it supplies that collection empty and keeps the others
C22_LoadIsFailSoft ==
    response.op = "load" =>
        LET file == response.body.file
            state == response.body.state
        IN  /\ SpecCollections \subseteq DOMAIN state
            /\ \A c \in SpecCollections :
                  state[c] = IF file.kind = "object" THEN DictGet(file.value, c, <<>>)
                             ELSE <<>>

\* what a step may do to the audit database: append rows to the log, and
\* store the response it gave under the request's key
OnlyBestEffortWrites ==
    /\ Len(audit_log') >= Len(audit_log)
    /\ SubSeq(audit_log', 1, Len(audit_log)) = audit_log
    /\ \/ idempotency_keys' = idempotency_keys
       \/ idempotency_keys' = DictSet(idempotency_keys, "k1", response'.body)

Granted(cred) == api_token = "" \/ TokenOf(cred) = api_token

\* C24: access to the integration endpoints is granted exactly when no API
\* token is configured or the request carries the configured token: otherwise
\* an enqueue is answered 401 and creates no record; with access it is
\* accepted, and so is the queue view
C24_AccessByToken ==
    [][\A cred \in Creds :
          /\ integration_event(cred, "") =>
                IF Granted(cred)
                THEN /\ response'.code = 200
                     /\ Len(queue') > 0
                     /\ queue'[Len(queue')].id = response'.body.record_id
                ELSE /\ response'.code = 401
                     /\ store' = store
          /\ integration_queue(cred) =>
                response'.code = (IF Granted(cred) THEN 200 ELSE 401)]_vars

\* what health_snapshot is to report over the store at such a moment
Degraded(age) == Len(dead_letter) > 0 \/ (Len(queue) > 0 /\ age = "stale")

HealthSnapshotOf(body, age) ==
    /\ {"status", "queue_total", "history_total", "dead_letter_total"} \subseteq DOMAIN body
    /\ body.status = (IF Degraded(age) THEN "degraded" ELSE "ok")
    /\ body.queue_total = Len(queue)
    /\ body.history_total = Len(history)
    /\ body.dead_letter_total = Len(dead_letter)

\* C25: the health snapshot reports status degraded whenever dead_letter is
\* not empty or the oldest queued record is older than the staleness threshold,
\* and ok otherwise; its queue_total, history_total and dead_letter_total are
\* the current sizes of the three collections
C25_HealthSnapshot ==
    [][\A age \in Ages :
          /\ HealthCall(age) => HealthSnapshotOf(response'.body, age)
          /\ EnterpriseHealthCall(age) => HealthSnapshotOf(response'.body, age)]_vars

\* the totals a view reports are those of the store
TotalsAgree(body) ==
    /\ {"queue_total", "dead_letter_total"} \subseteq DOMAIN body
    /\ body.queue_total = Len(queue)
    /\ body.dead_letter_total = Len(dead_letter)

\* C26: after any sequence of enqueue and flush calls the queue view and the
\* metrics view agree with the store: queue_total is the number of records in
\* queue, dead_letter_total the number in dead_letter, and the metrics view
\* reports the configured max_attempts
C26_ViewsAgreeWithStore ==
    [][/\ integration_queue("none") =>
            /\ response'.code = 200
            /\ TotalsAgree(response'.body)
       /\ integration_metrics("none") =>
            /\ response'.code = 200
            /\ "metrics" \in DOMAIN response'.body
            /\ TotalsAgree(response'.body.metrics)
            /\ response'.body.metrics.integration_max_attempts = INTEGRATION_MAX_ATTEMPTS
      ]_vars

\* the ids of a sequence of audit rows go strictly up
StrictlyIncreasingIds(log) ==
    \A i, j \in 1..Len(log) : i < j => log[i].id < log[j].id

\* C27: the audit log is append-only with strictly increasing sequence ids:
\* every write gets an id greater than all earlier ones, no operation changes
\* or removes an entry, and a read with a limit returns at most that many
\* entries, those with the largest ids, in strictly descending id order
C27_AuditAppendOnly ==
    [][/\ Len(audit_log') >= Len(audit_log)
       /\ SubSeq(audit_log', 1, Len(audit_log)) = audit_log
       /\ StrictlyIncreasingIds(audit_log')
       /\ \A limit \in AuditLimits :
            integration_audit("none", limit) =>
                LET items == response'.body.items
                    n == Len(audit_log)
                IN  /\ response'.code = 200
                    /\ Len(items) = (IF n < limit THEN n ELSE limit)
                    /\ response'.body.total = Len(items)
                    /\ \A i \in 1..Len(items) : items[i] = audit_log[n - i + 1]
                    /\ \A i \in 1..(Len(items) - 1) : items[i].id > items[i + 1].id
      ]_vars

\* a read with a limit below the number of entries has returned the newest ones
C27_Witness ==
    /\ response.op = "audit"
    /\ response.code = 200
    /\ Len(audit_log) >= 3
    /\ Len(response.body.items) = 2
    /\ response.body.items[1] = audit_log[Len(audit_log)]

\* the dispatch of the record makes an outbound call: there is a sink, or the
\* endpoint is a URL
CallMade(record) ==
    IF variant = "main" /\ ModeOf(record) # "target_webhook"
    THEN ModeOf(record) = "endpoint" /\ record.transport.url \in WellFormedUrls
    ELSE target_url # ""

\* C28: dispatch reports success exactly when the outbound call returned a
\* status in 200..299: after any other status, a connection failure or a
\* timeout it returns ok = false, and in target_webhook mode with no sink
\* configured it returns ok = false with a not-configured diagnostic, whatever
\* the network would have answered
C28_SuccessIffStatus2xx ==
    response.op = "dispatch" =>
        LET r == response.body
            made == CallMade(r.record)
            status2xx == 200 <= r.net /\ r.net <= 299
        IN  /\ r.ok <=> (made /\ status2xx)
            /\ (made /\ ~status2xx) => (~r.raised /\ ~r.ok)
            /\ (~CallMade(r.record) /\ (variant = "app" \/ ModeOf(r.record) = "target_webhook")) =>
                  /\ ~r.raised
                  /\ ~r.ok
                  /\ r.note \in {"target_webhook_not_configured",
                                 "target webhook is not configured"}

\* a call answered 299 was reported as a success and the same call answered
\* 300 would not be
C28_Witness ==
    /\ response.op = "dispatch"
    /\ response.body.net = 299
    /\ response.body.ok
    /\ ~Dispatch(response.body.record, 300).ok
    /\ ~Dispatch(response.body.record, 0).ok

\* the records of the queue beyond position limit
Beyond(limit) == SubSeq(queue, limit + 1, Len(queue))

\* the ids of the first min(limit, |queue|) records of the queue
SliceIds(limit) == {queue[i].id : i \in 1..(IF Len(queue) < limit THEN Len(queue) ELSE limit)}

\* C29: flush(limit) touches only the first min(limit, |queue|) records: every
\* record beyond position limit stays in queue with all its fields unchanged
\* and in the same order, and history and dead_letter gain only records of
\* the processed slice
C29_FlushFrame ==
    [][\A limit \in Limits : \A nets \in FlushNets(limit) :
            FlushRequest("none", limit, nets) =>
                /\ Len(queue') >= Len(Beyond(limit))
                /\ LastN(queue', Len(Beyond(limit))) = Beyond(limit)
                /\ \A i \in 1..(Len(queue') - Len(Beyond(limit))) :
                       queue'[i].id \in SliceIds(limit)
                /\ Ids(history') \ Ids(history) \subseteq SliceIds(limit)
                /\ Ids(dead_letter') \ Ids(dead_letter) \subseteq SliceIds(limit)
      ]_vars

\* a flush with limit 1 has delivered the first of two queued records and left
\* the second, never tried, in the queue
C29_Witness ==
    /\ response.op = "flush"
    /\ response.code = 200
    /\ response.body.processed = 1
    /\ response.body.success = 1
    /\ Len(queue) = 1
    /\ queue[1].attempts = 0
    /\ Len(history) > 0

\* C30: retry preserves insertion order: the records a flush leaves in the
\* queue (those that failed and those beyond the limit) are in the same
\* relative order as before, so the queue is always in enqueue order, oldest
\* first, and no retried record stands behind a record enqueued after it
C30_RetryKeepsOrder ==
    [][/\ \A limit \in Limits : \A nets \in FlushNets(limit) :
            FlushRequest("none", limit, nets) =>
                IdSeq(queue') = SelectSeq(IdSeq(queue), LAMBDA id : id \in Ids(queue'))
       /\ \A i, j \in 1..Len(queue') : i < j => queue'[i].id < queue'[j].id
      ]_vars

\* a record that failed once stands in front of a record enqueued after it
\* and never tried
C30_Witness ==
    /\ response.op = "flush"
    /\ Len(queue) = 2
    /\ queue[1].attempts > 0
    /\ queue[2].attempts = 0
    /\ queue[1].id < queue[2].id

\* C31: flush saves the store once per call, after the whole batch: a call
\* that is interrupted before that save (a dispatch raises) leaves the
\* persisted store exactly as it was loaded, although records before the
\* interruption were already dispatched; a call that completes saves the
\* outcome of every record of the batch
C31_SingleSaveAfterBatch ==
    [][\A limit \in Limits : \A nets \in FlushNets(limit) :
            FlushRequest("none", limit, nets) =>
                IF response'.code = 500
                THEN store' = store
                ELSE \A id \in SliceIds(limit) :
                        \/ /\ id \in Ids(queue')
                           /\ RecordIn(queue', id).attempts = RecordIn(queue, id).attempts + 1
                        \/ /\ id \notin Ids(queue')
                           /\ id \in Ids(history') \/ Len(history') = HistoryCap
      ]_vars

\* a flush was interrupted at its second record after it had dispatched the
\* first, and the store still shows the first as never tried
C31_Witness ==
    /\ response.op = "flush"
    /\ response.code = 500
    /\ Len(queue) = 2
    /\ queue[1].attempts = 0
    /\ Dispatch(MarkAttempt(queue[1]), 200).ok
    /\ Dispatch(MarkAttempt(queue[2]), 200).raised

\* the stage names of a result, in the order reported
StageNamesOf(result) == [k \in 1..Len(result.stages) |-> result.stages[k].name]

\* C32: every autopilot run produces exactly four stage results, in the order
\* etp.status.sync, ecm.approval.submit, erp.sync, crypto.sign, whatever the
\* outcome of the earlier stages
C32_FourStagesInOrder ==
    [][(response'.op = "autopilot") =>
          /\ response'.code = 200
          /\ StageNamesOf(response'.body.result) = StageNames]_vars

\* C33: each autopilot run appends exactly one snapshot to enterprise_status,
\* whose summary equals the counts of the returned result, and changes the rest
\* of the store only by appending to queue the retry records listed in
\* queued_retry_records: history and dead_letter are unchanged and no existing
\* queue record is removed or modified
C33_RunFrame ==
    [][(response'.op = "autopilot") =>
          /\ response'.code = 200
          /\ LET result == response'.body.result
                 status == enterprise_status'
             IN  /\ Len(status) > 0
                 /\ status = LastN(Append(enterprise_status, status[Len(status)]),
                                   EnterpriseStatusCap)
                 /\ status[Len(status)].summary =
                        [success |-> result.stages_success,
                         failed |-> result.stages_failed,
                         skipped |-> result.stages_skipped]
                 /\ history' = history
                 /\ dead_letter' = dead_letter
                 /\ Len(queue') = Len(queue) + Len(result.queued_retry_records)
                 /\ SubSeq(queue', 1, Len(queue)) = queue
                 /\ IdSeq(queue') = IdSeq(queue) \o result.queued_retry_records]_vars

\* C34: an autopilot request appends exactly one chain entry when the
\* immutable audit is requested and none when it is not, the entry's payload
\* records procedure_id, stages_success, stages_failed and queued_retry_records
\* of the run just returned, and a request answered from the idempotency cache
\* appends no entry
C34_OneChainEntryPerRun ==
    [][\A idem \in IdemKeys, at \in Times :
            ChainedRun(idem, at) =>
                IF idem # "" /\ idem \in DOMAIN idempotency_keys
                THEN immutable_audit_chain' = immutable_audit_chain
                ELSE IF ~request.settings.immutable_audit
                THEN immutable_audit_chain' = immutable_audit_chain
                ELSE /\ Len(immutable_audit_chain') = Len(immutable_audit_chain) + 1
                     /\ SubSeq(immutable_audit_chain', 1, Len(immutable_audit_chain))
                            = immutable_audit_chain
                     /\ response'.code = 200
                     /\ LET entry == immutable_audit_chain'[Len(immutable_audit_chain')]
                            result == response'.body.result
                        IN  entry.payload_json =
                                Canonical([access |-> "integration_token",
                                           procedure_id |-> "p1",
                                           stages_success |-> result.stages_success,
                                           stages_failed |-> result.stages_failed,
                                           queued_retry_records |->
                                               result.queued_retry_records])
      ]_vars

\* C35: two autopilot runs with the same payload, settings and procedure_id,
\* all endpoints unset and simulation on, produce identical stage results
\* (name, ok, detail and data) for all four stages
C35_SimulationDeterministic ==
    [][(response.op = "run" /\ response'.op = "run") =>
          response'.body.stages = response.body.stages]_vars

\* C36: two enqueue requests with the same non-empty idempotency key that run
\* concurrently yield one side effect: exactly one new record is in queue
\* afterwards and both callers receive the same record_id
C36_ConcurrentSameKey ==
    \A t1, t2 \in Threads :
        (/\ t1 # t2
         /\ threads[t1].pc = "done" /\ threads[t2].pc = "done"
         /\ threads[t1].doc = threads[t2].doc) =>
            /\ Len(queue) = 1
            /\ threads[t1].out.record_id = threads[t2].out.record_id

\* C37: the chain never forks under concurrent writers: no two entries share
\* a prev_hash, and the chain ordered by id is linearly linked from genesis
C37_ChainNeverForks ==
    /\ \A i, j \in 1..Len(immutable_audit_chain) :
           i # j => immutable_audit_chain[i].prev_hash # immutable_audit_chain[j].prev_hash
    /\ \A i \in 1..Len(immutable_audit_chain) :
           immutable_audit_chain[i].prev_hash =
               (IF i = 1 THEN genesis ELSE immutable_audit_chain[i - 1].hash)

\* C38: for every flush(limit) call on a queue of length n, the returned
\* counters satisfy processed = min(limit, n), processed = success + failed,
\* dead_lettered <= failed and queue_remaining = n - success - dead_lettered,
\* and queue_remaining is the length of the queue saved
C38_FlushCounters ==
    [][\A limit \in Limits : \A nets \in FlushNets(limit) :
            FlushRequest("none", limit, nets) =>
                /\ response'.code = 200
                /\ {"processed", "success", "failed", "dead_lettered", "queue_remaining"}
                       \subseteq DOMAIN response'.body
                /\ LET counters == response'.body
                       n == Len(queue)
                   IN  /\ counters.processed = (IF limit < n THEN limit ELSE n)
                       /\ counters.processed = counters.success + counters.failed
                       /\ counters.dead_lettered <= counters.failed
                       /\ counters.queue_remaining =
                              n - counters.success - counters.dead_lettered
                       /\ counters.queue_remaining = Len(queue')
      ]_vars

\* C39: an autopilot request repeated with the same non-empty idempotency key
\* has one side effect, also when the first request failed after the pipeline
\* ran: the repeat adds no retry record to queue, no enterprise status snapshot
\* and no chain entry, and it returns the first response
C39_RepeatHasNoSideEffect ==
    [][(response.op = "autopilot" /\ \E at \in Times : RepeatRun(at)) =>
          /\ store' = store
          /\ immutable_audit_chain' = immutable_audit_chain
          /\ response.code = 200 =>
                response' = [response EXCEPT !.body = DictSet(@, "duplicate", TRUE)]
      ]_vars

====
